---- MODULE Spec2Model ----
(***************************************************************************)
(* Model of the Deep-Researcher research orchestrator (LangGraph state     *)
(* machine of app/models/research_agent.py), of the provider tools of      *)
(* app/utils/search_tools.py that its search nodes call, of the process-   *)
(* wide search configuration (app/utils/config.py) and of the FAISS-backed *)
(* knowledge store (app/utils/rag_utils.py).                               *)
(*                                                                         *)
(* Text is modelled as a sequence of tokens: string concatenation is \o,   *)
(* the substring test `marker in text` is membership of the marker token.  *)
(***************************************************************************)
EXTENDS Integers, Sequences, FiniteSets, TLC

VARIABLES
    config,                 \* config.search_config: the six source enable flags
    search_config,          \* the argument of create_research_agent while it executes
    pc,                     \* position of the run: idle, a graph node, END, EXC, returned
    question,               \* ResearchState.question
    search_logs,            \* ResearchState.search_logs
    current_answer,         \* ResearchState.current_answer
    final_answer,           \* ResearchState.final_answer
    needs_more_research,    \* ResearchState.needs_more_research
    next_search_strategy,   \* ResearchState.next_search_strategy
    trace,                  \* graph nodes completed so far in this run, in order
    last_tool,              \* the last provider tool call: tool, whether a client failed, output
    exc,                    \* the exception that left agent.invoke, or None
    ret,                    \* what run_research_agent handed to its caller
    disk,                   \* on-disk directory of the collection
    mem,                    \* per RAGSystem instance: its in-memory vector store
    rag_ret                 \* per RAGSystem instance: outcome of its last call

research_vars == <<config, search_config, pc, question, search_logs, current_answer, final_answer,
                   needs_more_research, next_search_strategy, trace, last_tool, exc, ret>>
store_vars == <<disk, mem, rag_ret>>
vars == <<config, search_config, pc, question, search_logs, current_answer, final_answer,
          needs_more_research, next_search_strategy, trace, last_tool, exc, ret,
          disk, mem, rag_ret>>

None == "None"

(***************************************************************************)
(* Bounds of the model.                                                    *)
(***************************************************************************)
Questions == {"Q1", "Q2"}

(***************************************************************************)
(* Configuration (config.py).                                              *)
(***************************************************************************)
FlagNames == {"web_search_enabled", "arxiv_search_enabled", "scholar_search_enabled",
              "youtube_search_enabled", "twitter_search_enabled", "linkedin_search_enabled"}

\* SearchConfig(): every source enabled by default.
SearchConfig == [k \in FlagNames |-> TRUE]

\* Variant: a flag the caller does not name goes back to its default.
update_search_config_from_defaults(cfg, new_config) ==
    [k \in FlagNames |-> IF k \in DOMAIN new_config THEN new_config[k] ELSE SearchConfig[k]]

\* Config.update_search_config restricted to the source flags: every key of
\* new_config overwrites the flag of that name, the others keep their value.
update_search_config(cfg, new_config) ==
    [k \in FlagNames |-> IF k \in DOMAIN new_config THEN new_config[k] ELSE cfg[k]]

\* No call of create_research_agent is executing.
NoArgument == [none |-> TRUE]

\* The dictionaries a caller can pass as search_config (None is the empty one:
\* `if search_config:` skips the update for both).
SearchConfigInputs == UNION {[D -> BOOLEAN] : D \in SUBSET FlagNames}

(***************************************************************************)
(* Provider tools (search_tools.py).  What the remote services answer is   *)
(* an input: "results", "none" (an empty answer) or "error" (the client    *)
(* raised, or its key is not configured).                                  *)
(***************************************************************************)
ProviderOutcomes == {"results", "none", "error"}

\* web_search: the disabled notice, the joined error messages when no engine
\* returned a result, the no-result notice, or the formatted results.
web_search(cfg, outcome) ==
    IF ~cfg["web_search_enabled"] THEN <<"Web search is disabled.">>
    ELSE IF outcome = "error" THEN <<"Error with web search">>
    ELSE IF outcome = "none" THEN <<"No web search results found.">>
    ELSE <<"### web title", "[web link](web link)", "web snippet">>

\* One line of provider output: its field prefix, "" for an empty line and
\* "text" for a line without a known prefix.  A section is a sequence of
\* lines; academic_search separates its sections by a blank line.
AcademicPaperSection(src) ==
    <<[key |-> "Title:", val |-> src], [key |-> "URL:", val |-> src],
      [key |-> "Authors:", val |-> src], [key |-> "Published:", val |-> src],
      [key |-> "Abstract:", val |-> src]>>

TextSection(t) == <<[key |-> "text", val |-> t]>>

\* The part of academic_search's output one provider contributes.
AcademicPart(enabled, name, outcome) ==
    IF ~enabled THEN <<>>
    ELSE IF outcome = "error" THEN <<TextSection("Error searching " \o name \o " papers.")>>
    ELSE IF outcome = "none" THEN <<TextSection("### " \o name \o " Papers")>>
    ELSE <<TextSection("### " \o name \o " Papers"), AcademicPaperSection(name)>>

\* academic_search: the sections of both providers, or the single notice when
\* neither provider returned a paper.
academic_search(cfg, arxiv, scholar) ==
    IF ~(cfg["arxiv_search_enabled"] /\ arxiv = "results")
       /\ ~(cfg["scholar_search_enabled"] /\ scholar = "results")
    THEN <<TextSection("No academic search results found or academic search is disabled.")>>
    ELSE AcademicPart(cfg["arxiv_search_enabled"], "arXiv", arxiv)
         \o AcademicPart(cfg["scholar_search_enabled"], "Google Scholar", scholar)

\* youtube_search: lines of output.
youtube_search(cfg, outcome) ==
    IF ~cfg["youtube_search_enabled"] THEN <<[key |-> "text", val |-> "YouTube search is disabled."]>>
    ELSE IF outcome = "error" THEN <<[key |-> "text", val |-> "Error searching YouTube"]>>
    ELSE IF outcome = "none" THEN <<[key |-> "text", val |-> "No YouTube video results found."]>>
    ELSE <<[key |-> "Title:", val |-> "video"], [key |-> "URL:", val |-> "video"],
           [key |-> "Description:", val |-> "video"], [key |-> "", val |-> ""]>>

\* The entries one network adds to social_media_search's result list.
SocialPart(enabled, name, outcome) ==
    IF ~enabled \/ outcome = "none" THEN <<>>
    ELSE IF outcome = "error" THEN <<"Error searching " \o name>>
    ELSE <<"Post on " \o name>>

\* social_media_search: the notice when the list is empty, else a header and
\* one block per entry (an error entry renders as its message).
social_media_search(cfg, twitter, linkedin) ==
    LET results == SocialPart(cfg["twitter_search_enabled"], "Twitter", twitter)
                   \o SocialPart(cfg["linkedin_search_enabled"], "LinkedIn", linkedin)
    IN  IF results = <<>> THEN <<"Social media search is disabled or no results found.">>
        ELSE <<"Social Media Results:">> \o results

\* The outcomes to draw for a provider: one value when it is disabled.
OutcomesOf(enabled) == IF enabled THEN ProviderOutcomes ELSE {"none"}

\* The text of tool output given as lines, and as sections of lines.
LinesText(lines) == [i \in DOMAIN lines |-> lines[i].key \o lines[i].val]

RECURSIVE SectionsText(_)
SectionsText(sections) ==
    IF sections = <<>> THEN <<>>
    ELSE LinesText(Head(sections)) \o SectionsText(Tail(sections))

NoToolCall == [tool |-> "none", failed |-> FALSE, output |-> <<>>]

(***************************************************************************)
(* Parsing and rendering of provider output (research_agent.py).           *)
(***************************************************************************)
\* A dict over a fixed set of possible keys, a key it lacks reading Absent.
Absent == "<absent>"

EmptyDict(keys) == [k \in keys |-> Absent]

Has(d, k) == d[k] # Absent

HasAll(d, keys) == \A k \in keys : Has(d, k)

NonEmpty(d) == \E k \in DOMAIN d : Has(d, k)

AcademicFields == {"title", "url", "authors", "published", "abstract"}

\* The field a line of academic output sets, by its prefix.
AcademicKey(line) ==
    CASE line.key = "Title:" -> "title"
      [] line.key = "URL:" -> "url"
      [] line.key = "Authors:" -> "authors"
      [] line.key = "Published:" -> "published"
      [] line.key = "Abstract:" -> "abstract"
      [] OTHER -> None

\* The inner loop over the lines of a section that starts with "Title:".
RECURSIVE AcademicLines(_, _)
AcademicLines(lines, paper) ==
    IF lines = <<>> THEN paper
    ELSE AcademicLines(Tail(lines),
                       IF AcademicKey(Head(lines)) = None THEN paper
                       ELSE [paper EXCEPT ![AcademicKey(Head(lines))] = Head(lines).val])

\* Variant: a paper is kept as soon as it has a title.
AcademicRequired_title == {"title"}

AcademicRequired == {"title", "url", "abstract"}

\* The loop over the sections: a section that starts with "Title:" closes the
\* paper before it, kept only with title, url and abstract; any other section
\* is skipped.  The last paper is closed after the loop.
RECURSIVE AcademicSections(_, _, _)
AcademicSections(sections, current_paper, papers) ==
    IF sections = <<>>
    THEN IF NonEmpty(current_paper) /\ HasAll(current_paper, AcademicRequired)
         THEN Append(papers, current_paper) ELSE papers
    ELSE LET section == Head(sections) IN
         IF section # <<>> /\ section[1].key = "Title:"
         THEN AcademicSections(Tail(sections),
                  AcademicLines(section, EmptyDict(AcademicFields)),
                  IF NonEmpty(current_paper) /\ HasAll(current_paper, AcademicRequired)
                  THEN Append(papers, current_paper) ELSE papers)
         ELSE AcademicSections(Tail(sections), current_paper, papers)

ParseAcademic(search_result) ==
    AcademicSections(search_result, EmptyDict(AcademicFields), <<>>)

RenderPaper(paper) ==
    <<"### [" \o paper["title"] \o "](" \o paper["url"] \o ")">>
    \o (IF Has(paper, "authors") THEN <<"**Authors:** " \o paper["authors"]>> ELSE <<>>)
    \o (IF Has(paper, "published") THEN <<"**Published:** " \o paper["published"]>> ELSE <<>>)
    \o (IF Has(paper, "abstract") THEN <<"**Abstract:** " \o paper["abstract"]>> ELSE <<>>)
    \o <<"---">>

RECURSIVE RenderPapers(_)
RenderPapers(papers) ==
    IF papers = <<>> THEN <<>> ELSE RenderPaper(Head(papers)) \o RenderPapers(Tail(papers))

FormatAcademic(papers) ==
    <<"## Academic Sources">>
    \o (IF papers # <<>> THEN RenderPapers(papers)
        ELSE <<"*No academic papers found for this query.*">>)

\* The loop over the lines of youtube output: an empty line closes the video
\* before it, kept only with title and url.
VideoFields == {"title", "url", "description"}

VideoRequired == {"title", "url"}

RECURSIVE VideoLines(_, _, _)
VideoLines(lines, current_video, videos) ==
    IF lines = <<>>
    THEN IF NonEmpty(current_video) /\ HasAll(current_video, VideoRequired)
         THEN Append(videos, current_video) ELSE videos
    ELSE LET line == Head(lines) IN
         CASE line.key = "" ->
                VideoLines(Tail(lines), EmptyDict(VideoFields),
                    IF NonEmpty(current_video) /\ HasAll(current_video, VideoRequired)
                    THEN Append(videos, current_video) ELSE videos)
           [] line.key = "Title:" ->
                VideoLines(Tail(lines), [current_video EXCEPT !["title"] = line.val], videos)
           [] line.key = "URL:" ->
                VideoLines(Tail(lines), [current_video EXCEPT !["url"] = line.val], videos)
           [] line.key = "Description:" ->
                VideoLines(Tail(lines), [current_video EXCEPT !["description"] = line.val],
                           videos)
           [] OTHER -> VideoLines(Tail(lines), current_video, videos)

ParseVideos(search_result) == VideoLines(search_result, EmptyDict(VideoFields), <<>>)

RenderVideo(video) ==
    <<"### " \o video["title"], "<iframe " \o video["url"] \o ">">>
    \o (IF Has(video, "description") THEN <<video["description"]>> ELSE <<>>)
    \o <<"---">>

RECURSIVE RenderVideos(_)
RenderVideos(videos) ==
    IF videos = <<>> THEN <<>> ELSE RenderVideo(Head(videos)) \o RenderVideos(Tail(videos))

FormatVideos(videos) ==
    <<"## Related Videos">>
    \o (IF videos # <<>> THEN RenderVideos(videos)
        ELSE <<"*No relevant videos found for this query.*">>)

(***************************************************************************)
(* The research state and the graph nodes (research_agent.py).             *)
(***************************************************************************)
\* The null of the record-valued fields (final_answer, ret).
Null == [null |-> TRUE]

Text(t) == [text |-> t]

\* The ResearchState the variables hold.
State ==
    [question |-> question, search_logs |-> search_logs,
     current_answer |-> current_answer, final_answer |-> final_answer,
     needs_more_research |-> needs_more_research,
     next_search_strategy |-> next_search_strategy]

\* Variant: the run is seeded with the academic search.
InitialState_academic(q) ==
    [question |-> q, search_logs |-> <<>>, current_answer |-> <<>>,
     final_answer |-> Null, needs_more_research |-> TRUE,
     next_search_strategy |-> "academic_search"]

\* initial_state of run_research_agent.
InitialState(q) ==
    [question |-> q, search_logs |-> <<>>, current_answer |-> <<>>,
     final_answer |-> Null, needs_more_research |-> TRUE,
     next_search_strategy |-> "web_search"]

\* route_search: the "next" key it returns.
route_search(st) ==
    IF st.next_search_strategy \in {"web_search", "academic_search", "youtube_search",
                                    "social_media_search", "summarize"}
    THEN st.next_search_strategy
    ELSE "answer"

\* Variant: the default key of the router leads to the web node.
RouteEdges_answer_to_web(next) == IF next = "answer" THEN "web_search" ELSE next

\* The conditional edges out of route_search.
RouteEdges(next) == IF next = "answer" THEN "summarize" ELSE next

\* Variant: an error answer of the tool is not logged.
process_web_search_skips_errors(st, search_result) ==
    IF search_result = <<"Error with web search">>
    THEN [st EXCEPT !.next_search_strategy = None]
    ELSE [st EXCEPT !.search_logs = Append(@, [source |-> "web", query |-> st.question,
                                               results |-> search_result, links |-> <<>>]),
                    !.current_answer = @ \o <<"## Web Search Results">> \o search_result,
                    !.next_search_strategy = None]

process_web_search(st, search_result) ==
    [st EXCEPT !.search_logs = Append(@, [source |-> "web", query |-> st.question,
                                          results |-> search_result, links |-> <<>>]),
               !.current_answer = @ \o <<"## Web Search Results">> \o search_result,
               !.next_search_strategy = None]

\* Variant: the academic node starts a new log.
process_academic_search_fresh_log(st, search_result) ==
    LET papers == ParseAcademic(search_result)
        formatted_result == FormatAcademic(papers)
    IN  [st EXCEPT !.search_logs = <<[source |-> "academic", query |-> st.question,
                                      results |-> formatted_result, links |-> papers]>>,
                   !.current_answer = @ \o formatted_result,
                   !.next_search_strategy = None]

\* search_result is the tool's output as sections of lines.
process_academic_search(st, search_result) ==
    LET papers == ParseAcademic(search_result)
        formatted_result == FormatAcademic(papers)
    IN  [st EXCEPT !.search_logs = Append(@, [source |-> "academic", query |-> st.question,
                                              results |-> formatted_result, links |-> papers]),
                   !.current_answer = @ \o formatted_result,
                   !.next_search_strategy = None]

\* Variant: the video node does not clear the strategy.
process_youtube_search_keeps_strategy(st, search_result) ==
    LET videos == ParseVideos(search_result)
        formatted_result == FormatVideos(videos)
    IN  [st EXCEPT !.search_logs = Append(@, [source |-> "youtube", query |-> st.question,
                                              results |-> formatted_result, links |-> videos]),
                   !.current_answer = @ \o formatted_result]

process_youtube_search(st, search_result) ==
    LET videos == ParseVideos(search_result)
        formatted_result == FormatVideos(videos)
    IN  [st EXCEPT !.search_logs = Append(@, [source |-> "youtube", query |-> st.question,
                                              results |-> formatted_result, links |-> videos]),
                   !.current_answer = @ \o formatted_result,
                   !.next_search_strategy = None]

\* Variant: the social media results are logged and not added to the narrative.
process_social_media_search_no_narrative(st, search_result) ==
    [st EXCEPT !.search_logs = Append(@, [source |-> "social_media", query |-> st.question,
                                          results |-> search_result]),
               !.next_search_strategy = None]

\* The social entry carries no links key.
process_social_media_search(st, search_result) ==
    [st EXCEPT !.search_logs = Append(@, [source |-> "social_media", query |-> st.question,
                                          results |-> search_result]),
               !.current_answer = @ \o search_result,
               !.next_search_strategy = None]

\* What the reflection chain can answer: commentary with the Yes marker, with
\* the No marker, or without a marker.
MarkerYes == "FURTHER_RESEARCH_NEEDED: Yes"

ReflectionOutputs ==
    {<<"analysis", MarkerYes>>, <<"analysis", "FURTHER_RESEARCH_NEEDED: No">>, <<"analysis">>}

\* Variant: only the No marker means that no more research is needed.
ReflectionSaysYes_unless_no(reflection) ==
    ~\E i \in DOMAIN reflection : reflection[i] = "FURTHER_RESEARCH_NEEDED: No"

\* "FURTHER_RESEARCH_NEEDED: Yes" in reflection
ReflectionSaysYes(reflection) == \E i \in DOMAIN reflection : reflection[i] = MarkerYes

WebEntries(logs) == {i \in DOMAIN logs : logs[i].source = "web"}

\* Variant: the first two web searches are not counted.
loops_completed_minus_two(logs) == Cardinality(WebEntries(logs)) - 2

loops_completed(logs) == Cardinality(WebEntries(logs)) - 1

\* Variant: only the source of the last entry counts as used.
sources_used_last(logs) == IF logs = <<>> THEN {} ELSE {logs[Len(logs)].source}

sources_used(logs) == {logs[i].source : i \in DOMAIN logs}

\* Variant: social media comes before the video source.
search_sequence_social_first(cfg) ==
    <<[source |-> "web", enabled |-> cfg["web_search_enabled"]],
      [source |-> "academic",
       enabled |-> cfg["arxiv_search_enabled"] \/ cfg["scholar_search_enabled"]],
      [source |-> "social_media",
       enabled |-> cfg["twitter_search_enabled"] \/ cfg["linkedin_search_enabled"]],
      [source |-> "youtube", enabled |-> cfg["youtube_search_enabled"]]>>

\* search_sequence: the sources in their fixed order with their enable flag.
search_sequence(cfg) ==
    <<[source |-> "web", enabled |-> cfg["web_search_enabled"]],
      [source |-> "academic",
       enabled |-> cfg["arxiv_search_enabled"] \/ cfg["scholar_search_enabled"]],
      [source |-> "youtube", enabled |-> cfg["youtube_search_enabled"]],
      [source |-> "social_media",
       enabled |-> cfg["twitter_search_enabled"] \/ cfg["linkedin_search_enabled"]]>>

\* Variant: the enable flag is not looked at.
RECURSIVE FirstUnused_any(_, _)
FirstUnused_any(seq, used) ==
    IF seq = <<>> THEN None
    ELSE IF Head(seq).source \notin used
         THEN Head(seq).source \o "_search"
         ELSE FirstUnused_any(Tail(seq), used)

\* The for loop over search_sequence: the first enabled source not in the log.
RECURSIVE FirstUnused(_, _)
FirstUnused(seq, used) ==
    IF seq = <<>> THEN None
    ELSE IF Head(seq).source \notin used /\ Head(seq).enabled
         THEN Head(seq).source \o "_search"
         ELSE FirstUnused(Tail(seq), used)

\* Variant: no new loop is begun when every enabled source has been used.
SequentialStrategy_no_restart(logs, needs_more, cfg) ==
    IF needs_more
    THEN LET found == FirstUnused(search_sequence(cfg), sources_used(logs))
         IN  IF found # None THEN found ELSE "summarize"
    ELSE "summarize"

\* Variant: a verdict that says no more research leaves the strategy null.
SequentialStrategy_null_when_done(logs, needs_more, cfg) ==
    IF needs_more
    THEN LET found == FirstUnused(search_sequence(cfg), sources_used(logs))
         IN  IF found # None THEN found
             ELSE IF loops_completed(logs) < 2 THEN "web_search"
             ELSE "summarize"
    ELSE None

\* The strategy reflect_on_research chooses below the hard cap.
SequentialStrategy(logs, needs_more, cfg) ==
    IF needs_more
    THEN LET found == FirstUnused(search_sequence(cfg), sources_used(logs))
         IN  IF found # None THEN found
             ELSE IF loops_completed(logs) < 2 THEN "web_search"
             ELSE "summarize"
    ELSE "summarize"

\* The number of completed loops at which reflect_on_research stops the run.
HardCap == 2

\* Variant: the number of completed loops is not looked at.
reflect_on_research_uncapped(st, reflection, cfg) ==
    LET needs_more == ReflectionSaysYes(reflection)
    IN  [st EXCEPT !.current_answer = @ \o <<"### Research Progress Analysis">> \o reflection,
                   !.needs_more_research = needs_more,
                   !.next_search_strategy =
                       SequentialStrategy(st.search_logs, needs_more, cfg)]

reflect_on_research(st, reflection, cfg) ==
    LET capped == loops_completed(st.search_logs) >= HardCap
        needs_more == IF capped THEN FALSE ELSE ReflectionSaysYes(reflection)
        strategy == IF capped THEN "summarize"
                    ELSE SequentialStrategy(st.search_logs, needs_more, cfg)
    IN  [st EXCEPT !.current_answer = @ \o <<"### Research Progress Analysis">> \o reflection,
                   !.needs_more_research = needs_more,
                   !.next_search_strategy = strategy]

RECURSIVE ConcatResults(_)
ConcatResults(logs) ==
    IF logs = <<>> THEN <<>> ELSE Head(logs).results \o ConcatResults(Tail(logs))

\* Variant: the synthesis is given the narrative, reflections included.
organized_content_narrative(st) ==
    <<"# Research Analysis: " \o st.question>> \o st.current_answer

\* organized_content: the heading and the results of every log entry.
organized_content(st) ==
    <<"# Research Analysis: " \o st.question>> \o ConcatResults(st.search_logs)

\* The synthesis chain, as a term over what it is given.
summary_chain(q, findings) == [text |-> "analysis", question |-> q, findings |-> findings]

\* Variant: the answer of the synthesis chain is dropped.
create_final_summary_no_answer(st) ==
    [st EXCEPT !.needs_more_research = FALSE]

create_final_summary(st) ==
    [st EXCEPT !.final_answer = summary_chain(st.question, organized_content(st)),
               !.needs_more_research = FALSE]

\* Variant: the summarize strategy is not looked at.
should_continue_flag_only(st) ==
    IF st.needs_more_research THEN "continue" ELSE "end"

should_continue(st) ==
    IF st.next_search_strategy = "summarize" THEN "summarize"
    ELSE IF st.needs_more_research THEN "continue"
    ELSE "end"

\* The conditional edges out of reflect.
ReflectEdges(label) ==
    CASE label = "continue" -> "route_search"
      [] label = "summarize" -> "summarize"
      [] label = "end" -> "END"

Sentinel == Text("An error occurred while processing your request.")

\* Variant: no except clause around agent.invoke.
run_result_uncaught(raised, result, e) ==
    IF raised
    THEN [raised |-> TRUE, answer |-> Null, state |-> Null]
    ELSE [raised |-> FALSE, answer |-> result.final_answer, state |-> result]

\* The tail of run_research_agent: agent.invoke returned result, or raised e.
run_result(raised, result, e) ==
    IF raised
    THEN [raised |-> FALSE, answer |-> Sentinel, state |-> [error |-> e]]
    ELSE [raised |-> FALSE,
          answer |-> result.final_answer,
          state |-> result]

(***************************************************************************)
(* The run of the graph: one action per node, per failing service call     *)
(* and for the entry and the return of run_research_agent.                 *)
(***************************************************************************)
SetState(st) ==
    /\ question' = st.question
    /\ search_logs' = st.search_logs
    /\ current_answer' = st.current_answer
    /\ final_answer' = st.final_answer
    /\ needs_more_research' = st.needs_more_research
    /\ next_search_strategy' = st.next_search_strategy

Enter(node) == trace' = Append(trace, node)

\* run_research_agent up to agent.invoke: create_research_agent updates the
\* process-wide configuration, the graph starts at its entry point.
RunStart ==
    /\ pc = "idle"
    /\ \E q \in Questions, flags \in SearchConfigInputs :
          /\ config' = update_search_config(config, flags)
          /\ SetState(InitialState(q))
    /\ pc' = "route_search"
    /\ trace' = <<>>
    /\ UNCHANGED <<search_config, last_tool, exc, ret, disk, mem, rag_ret>>

Route ==
    /\ pc = "route_search"
    /\ pc' = RouteEdges(route_search(State))
    /\ Enter("route_search")
    /\ UNCHANGED <<config, search_config, question, search_logs, current_answer, final_answer,
                   needs_more_research, next_search_strategy, last_tool, exc, ret,
                   disk, mem, rag_ret>>

WebSearch ==
    /\ pc = "web_search"
    /\ \E outcome \in OutcomesOf(config["web_search_enabled"]) :
       \E search_result \in {web_search(config, outcome)} :
       \E st \in {process_web_search(State, search_result)} :
          /\ SetState(st)
          /\ last_tool' = [tool |-> "web_search", failed |-> outcome = "error",
                           output |-> search_result]
    /\ pc' = "reflect"
    /\ Enter("web_search")
    /\ UNCHANGED <<config, search_config, exc, ret, disk, mem, rag_ret>>

AcademicSearch ==
    /\ pc = "academic_search"
    /\ \E arxiv \in OutcomesOf(config["arxiv_search_enabled"]),
          scholar \in OutcomesOf(config["scholar_search_enabled"]) :
       \E search_result \in {academic_search(config, arxiv, scholar)} :
       \E st \in {process_academic_search(State, search_result)} :
          /\ SetState(st)
          /\ last_tool' = [tool |-> "academic_search",
                           failed |-> arxiv = "error" \/ scholar = "error",
                           output |-> SectionsText(search_result)]
    /\ pc' = "reflect"
    /\ Enter("academic_search")
    /\ UNCHANGED <<config, search_config, exc, ret, disk, mem, rag_ret>>

YoutubeSearch ==
    /\ pc = "youtube_search"
    /\ \E outcome \in OutcomesOf(config["youtube_search_enabled"]) :
       \E search_result \in {youtube_search(config, outcome)} :
       \E st \in {process_youtube_search(State, search_result)} :
          /\ SetState(st)
          /\ last_tool' = [tool |-> "youtube_search", failed |-> outcome = "error",
                           output |-> LinesText(search_result)]
    /\ pc' = "reflect"
    /\ Enter("youtube_search")
    /\ UNCHANGED <<config, search_config, exc, ret, disk, mem, rag_ret>>

SocialMediaSearch ==
    /\ pc = "social_media_search"
    /\ \E twitter \in OutcomesOf(config["twitter_search_enabled"]),
          linkedin \in OutcomesOf(config["linkedin_search_enabled"]) :
       \E search_result \in {social_media_search(config, twitter, linkedin)} :
       \E st \in {process_social_media_search(State, search_result)} :
          /\ SetState(st)
          /\ last_tool' = [tool |-> "social_media_search",
                           failed |-> twitter = "error" \/ linkedin = "error",
                           output |-> search_result]
    /\ pc' = "reflect"
    /\ Enter("social_media_search")
    /\ UNCHANGED <<config, search_config, exc, ret, disk, mem, rag_ret>>

Reflect ==
    /\ pc = "reflect"
    /\ \E reflection \in ReflectionOutputs :
       \E st \in {reflect_on_research(State, reflection, config)} :
          /\ SetState(st)
          /\ pc' = ReflectEdges(should_continue(st))
    /\ Enter("reflect")
    /\ UNCHANGED <<config, search_config, last_tool, exc, ret, disk, mem, rag_ret>>

\* reflection_chain.invoke raises: the exception leaves agent.invoke.
ReflectRaises ==
    /\ pc = "reflect"
    /\ pc' = "EXC"
    /\ exc' = "reflection failed"
    /\ UNCHANGED <<config, search_config, question, search_logs, current_answer, final_answer,
                   needs_more_research, next_search_strategy, trace, last_tool, ret,
                   disk, mem, rag_ret>>

Summarize ==
    /\ pc = "summarize"
    /\ \E st \in {create_final_summary(State)} : SetState(st)
    /\ pc' = "END"
    /\ Enter("summarize")
    /\ UNCHANGED <<config, search_config, last_tool, exc, ret, disk, mem, rag_ret>>

\* summary_chain.invoke raises.
SummarizeRaises ==
    /\ pc = "summarize"
    /\ pc' = "EXC"
    /\ exc' = "synthesis failed"
    /\ UNCHANGED <<config, search_config, question, search_logs, current_answer, final_answer,
                   needs_more_research, next_search_strategy, trace, last_tool, ret,
                   disk, mem, rag_ret>>

\* The try/except around agent.invoke and the return to the caller.
RunReturn ==
    /\ pc \in {"END", "EXC"}
    /\ ret' = run_result(pc = "EXC", State, exc)
    /\ pc' = "returned"
    /\ UNCHANGED <<config, search_config, question, search_logs, current_answer, final_answer,
                   needs_more_research, next_search_strategy, trace, last_tool, exc,
                   disk, mem, rag_ret>>

(***************************************************************************)
(* Successive runs in one process.  The research state, the exception and  *)
(* the returned value belong to one call of run_research_agent; config is  *)
(* the module-level object of config.py and outlives the call.             *)
(***************************************************************************)
\* run_research_agent(q, flags) up to the return of create_research_agent:
\* a search_config that is not empty updates the process-wide configuration.
CreateResearchAgent ==
    /\ pc = "idle"
    /\ \E q \in Questions, flags \in SearchConfigInputs :
          /\ config' = update_search_config(config, flags)
          /\ search_config' = flags
          /\ question' = q
    /\ pc' = "created"
    /\ UNCHANGED <<search_logs, current_answer, final_answer, needs_more_research,
                   next_search_strategy, trace, last_tool, exc, ret, disk, mem, rag_ret>>

\* The graph is compiled and agent.invoke enters it with initial_state.
Invoke ==
    /\ pc = "created"
    /\ SetState(InitialState(question))
    /\ search_config' = NoArgument
    /\ pc' = "route_search"
    /\ trace' = <<>>
    /\ UNCHANGED <<config, last_tool, exc, ret, disk, mem, rag_ret>>

\* The caller has the result of the run and the process waits for the next
\* question: nothing of the call is left but what it wrote to config.
NextQuestion ==
    /\ pc = "returned"
    /\ pc' = "idle"
    /\ question' = None
    /\ search_logs' = <<>>
    /\ current_answer' = <<>>
    /\ final_answer' = Null
    /\ needs_more_research' = TRUE
    /\ next_search_strategy' = None
    /\ trace' = <<>>
    /\ last_tool' = NoToolCall
    /\ exc' = None
    /\ ret' = Null
    /\ UNCHANGED <<config, search_config, disk, mem, rag_ret>>

(***************************************************************************)
(* The knowledge store (rag_utils.py).  The collection directory is one    *)
(* value: missing, unloadable (corrupt files, or files of another schema)  *)
(* or a saved index with its documents.  Embedding and writing the         *)
(* directory are taken to succeed.                                         *)
(***************************************************************************)
Instances == {1, 2}

MaxDocs == 4

ChunkSize == 1000

ChunkOverlap == 200

\* A text is its name and its length in characters.
Texts == {[name |-> "hello", len |-> 11], [name |-> "page", len |-> 1000],
          [name |-> "pages", len |-> 1001], [name |-> "book", len |-> 1801]}

Placeholder == [page_content |-> <<"Initialization document", 1>>, metadata |-> "none"]

DiskMissing == [kind |-> "missing", docs |-> <<>>]

\* The directories the process can find when it starts.
InitialDisks ==
    {DiskMissing, [kind |-> "corrupt", docs |-> <<>>], [kind |-> "schema", docs |-> <<>>],
     [kind |-> "ok", docs |-> <<Placeholder>>],
     [kind |-> "ok", docs |-> <<Placeholder, [page_content |-> <<"old", 1>>, metadata |-> "m"]>>]}

Closed == [open |-> FALSE, origin |-> "none", docs |-> <<>>]

\* chunk_document: the number of windows of ChunkSize characters, each
\* overlapping the one before it by ChunkOverlap, that cover the text.
ChunkCount(len) ==
    IF len = 0 THEN 0
    ELSE IF len <= ChunkSize THEN 1
    ELSE ((len - ChunkOverlap) + (ChunkSize - ChunkOverlap) - 1) \div (ChunkSize - ChunkOverlap)

chunk_document(text) == [i \in 1..ChunkCount(text.len) |-> <<text.name, i>>]

\* A position of the index that has a vector and no chunk in the side-table.
Orphan == [page_content |-> <<"vector without chunk", 0>>, metadata |-> "none"]

\* FAISS.save_local: the whole in-memory store replaces the directory, the
\* index file and the side-table of chunks.  A store loaded with vectors
\* that have no chunk is saved with them.
save_local(docs) ==
    LET table == SelectSeq(docs, LAMBDA doc : doc # Orphan)
    IN  IF table = docs THEN [kind |-> "ok", docs |-> docs]
        ELSE [kind |-> "torn", docs |-> table, vectors |-> Len(docs)]

\* FAISS.load_local on a directory whose index file and side-table come from
\* different saves: both files read, nothing compares them.  The store holds
\* the positions that have a vector; those beyond the side-table have no chunk.
load_torn(d) ==
    IF d.vectors <= Len(d.docs) THEN SubSeq(d.docs, 1, d.vectors)
    ELSE d.docs \o [n \in 1..(d.vectors - Len(d.docs)) |-> Orphan]

\* Variant: the new store is created without a document.
create_new_vector_store_empty ==
    [raised |-> FALSE, origin |-> "created", docs |-> <<>>, disk |-> save_local(<<>>)]

\* _create_new_vector_store: a store of the placeholder document, saved.
create_new_vector_store ==
    [raised |-> FALSE, origin |-> "created", docs |-> <<Placeholder>>,
     disk |-> save_local(<<Placeholder>>)]

\* Variant: no except clause around FAISS.load_local.
init_vector_store_no_fallback(d) ==
    IF d.kind # "missing"
    THEN IF d.kind = "ok"
         THEN [raised |-> FALSE, origin |-> "loaded", docs |-> d.docs, disk |-> d]
         ELSE [raised |-> TRUE, origin |-> "none", docs |-> <<>>, disk |-> d]
    ELSE create_new_vector_store

\* _init_vector_store: load the directory when it exists, and fall back to a
\* new store when it does not exist or FAISS.load_local raises.
init_vector_store(d) ==
    IF d.kind # "missing"
    THEN IF d.kind = "ok"
         THEN [raised |-> FALSE, origin |-> "loaded", docs |-> d.docs, disk |-> d]
         ELSE IF d.kind = "torn"
         THEN [raised |-> FALSE, origin |-> "loaded", docs |-> load_torn(d), disk |-> d]
         ELSE create_new_vector_store
    ELSE create_new_vector_store

\* Variant: only the chunks of this call are saved.
add_text_saves_additions(docs, text, metadata) ==
    LET chunks == chunk_document(text)
        documents == [i \in DOMAIN chunks |-> [page_content |-> chunks[i], metadata |-> metadata]]
    IN  [raised |-> FALSE, value |-> Len(chunks), docs |-> docs \o documents,
         disk |-> save_local(documents)]

\* add_text: chunk, add to the in-memory store, save, return the chunk count.
add_text(docs, text, metadata) ==
    LET chunks == chunk_document(text)
        documents == [i \in DOMAIN chunks |-> [page_content |-> chunks[i], metadata |-> metadata]]
    IN  [raised |-> FALSE, value |-> Len(chunks), docs |-> docs \o documents,
         disk |-> save_local(docs \o documents)]

\* RAGSystem(collection_name): the constructor of instance i.
Construct(i) ==
    /\ ~mem[i].open
    /\ rag_ret[i].op = "none"
    /\ LET r == init_vector_store(disk) IN
          /\ mem' = [mem EXCEPT ![i] = IF r.raised THEN @
                                       ELSE [open |-> TRUE, origin |-> r.origin, docs |-> r.docs]]
          /\ disk' = IF r.raised THEN disk ELSE r.disk
          /\ rag_ret' = [rag_ret EXCEPT ![i] = [op |-> "__init__", raised |-> r.raised]]
    /\ UNCHANGED research_vars

AddText(i) ==
    /\ mem[i].open
    /\ \E text \in Texts :
          /\ Len(mem[i].docs) + ChunkCount(text.len) <= MaxDocs
          /\ LET r == add_text(mem[i].docs, text, "m") IN
                /\ mem' = [mem EXCEPT ![i].docs = r.docs]
                /\ disk' = r.disk
                /\ rag_ret' = [rag_ret EXCEPT ![i] = [op |-> "add_text", raised |-> r.raised,
                                                      value |-> r.value, text |-> text]]
    /\ UNCHANGED research_vars

(***************************************************************************)
(* The academic node on any provider output, well formed or not.           *)
(***************************************************************************)
MaxSections == 2

\* The shape of a section of provider output: its first line (a title line,
\* a URL line, a line without a known prefix, or nothing for a blank
\* section) and the field lines that follow it.
SectionShapes ==
    [first : {"Title:", "URL:", "text"}, fields : SUBSET {"URL:", "Authors:", "Abstract:"}]
    \cup {[first |-> "blank", fields |-> {}]}

\* The values of the n-th section all name it.
RecordName(n) == "record " \o ToString(n)

FieldLine(shape, key, n) ==
    IF key \in shape.fields THEN <<[key |-> key, val |-> RecordName(n)]>> ELSE <<>>

SectionOf(shape, n) ==
    IF shape.first = "blank" THEN <<>>
    ELSE <<[key |-> shape.first, val |-> RecordName(n)]>>
         \o FieldLine(shape, "URL:", n) \o FieldLine(shape, "Authors:", n)
         \o FieldLine(shape, "Abstract:", n)

\* Every output of at most MaxSections sections.
ProviderOutputs ==
    UNION {{[n \in 1..len |-> SectionOf(shapes[n], n)] : shapes \in [1..len -> SectionShapes]} :
           len \in 0..MaxSections}

\* The graph hands a state to the academic node.
AcademicNodeStart ==
    /\ pc = "idle"
    /\ \E q \in Questions : SetState(InitialState(q))
    /\ pc' = "academic_search"
    /\ trace' = <<>>
    /\ UNCHANGED <<config, search_config, last_tool, exc, ret, disk, mem, rag_ret>>

\* process_academic_search when academic_search.run returns search_result.
AcademicSearchOn ==
    /\ pc = "academic_search"
    /\ \E search_result \in ProviderOutputs :
       \E st \in {process_academic_search(State, search_result)} :
          /\ SetState(st)
          /\ last_tool' = [tool |-> "academic_search", failed |-> FALSE,
                           output |-> search_result]
    /\ pc' = "reflect"
    /\ Enter("academic_search")
    /\ UNCHANGED <<config, search_config, exc, ret, disk, mem, rag_ret>>

(***************************************************************************)
(* The router on any state the graph can hand to it.                       *)
(***************************************************************************)
\* The values of next_search_strategy: the five names the router knows, null,
\* and a name it does not know.
RouteStrategies ==
    {"web_search", "academic_search", "youtube_search", "social_media_search", "summarize",
     None, "deep_search"}

\* The logs of the states handed to the router: empty, or one web entry.
RouteLogs(q) ==
    {<<>>, <<[source |-> "web", query |-> q, results |-> <<"No web search results found.">>,
              links |-> <<>>]>>}

\* The graph hands a state to route_search.
RouteNodeStart ==
    /\ pc = "idle"
    /\ \E q \in Questions, strategy \in RouteStrategies, needs_more \in BOOLEAN :
       \E logs \in RouteLogs(q) :
          SetState([InitialState(q) EXCEPT !.search_logs = logs,
                                           !.current_answer = ConcatResults(logs),
                                           !.needs_more_research = needs_more,
                                           !.next_search_strategy = strategy])
    /\ pc' = "route_search"
    /\ trace' = <<>>
    /\ UNCHANGED <<config, search_config, last_tool, exc, ret, disk, mem, rag_ret>>

(***************************************************************************)
(* The other calls on a store, and the calls that fail inside an ingest.   *)
(***************************************************************************)
\* Where a call an ingest makes can raise: nowhere, in add_documents (the
\* embedding), or in save_local (the write of the directory).
IngestFaults == {"none", "embed", "save"}

\* A file is its name, whether extract_text_from_file returns for it (it
\* raises on an unsupported format or an unreadable file), and the length of
\* its text; a text of length 0 stands for a blank text.
Files == {[name |-> "notes.txt", extracts |-> TRUE, len |-> 11],
          [name |-> "paper.pdf", extracts |-> TRUE, len |-> 1001],
          [name |-> "blank.txt", extracts |-> TRUE, len |-> 0],
          [name |-> "image.png", extracts |-> FALSE, len |-> 0]}

\* add_document: everything from the extraction to the save is inside one
\* try block whose handler returns 0.  A raise of add_documents leaves memory
\* and disk as they were; a raise of save_local comes after add_documents has
\* extended the in-memory store.
add_document(docs, file, fault, d) ==
    IF ~file.extracts
    THEN [raised |-> FALSE, value |-> 0, docs |-> docs, disk |-> d]
    ELSE LET chunks == chunk_document(file)
             documents == [i \in DOMAIN chunks |->
                              [page_content |-> chunks[i], metadata |-> file.name]]
         IN  CASE fault = "embed" ->
                    [raised |-> FALSE, value |-> 0, docs |-> docs, disk |-> d]
               [] fault = "save" ->
                    [raised |-> FALSE, value |-> 0, docs |-> docs \o documents, disk |-> d]
               [] OTHER ->
                    [raised |-> FALSE, value |-> Len(chunks), docs |-> docs \o documents,
                     disk |-> save_local(docs \o documents)]

\* add_text when add_documents or save_local raises: add_text has no try
\* block, the exception reaches the caller.
add_text_fault(docs, text, metadata, fault, d) ==
    LET chunks == chunk_document(text)
        documents == [i \in DOMAIN chunks |-> [page_content |-> chunks[i], metadata |-> metadata]]
    IN  [raised |-> TRUE,
         docs |-> IF fault = "save" THEN docs \o documents ELSE docs,
         disk |-> d]

\* The attributes of the object self.vector_store.index, the FAISS library's
\* native index; the position-to-id table index_to_docstore_id is an
\* attribute of self.vector_store, not of its index.
IndexAttributes == {"d", "ntotal", "is_trained", "metric_type"}

\* get_collection_info: the length of index.index_to_docstore_id, or 0 when
\* reading it raises.
get_collection_info(docs) ==
    [collection_name |-> "default",
     vector_count |-> IF "index_to_docstore_id" \in IndexAttributes THEN Len(docs) ELSE 0]

\* The values of k retrieve is called with: 1 and its default.
RetrieveKs == {1, 5}

\* retrieve: the positions of the k chunks nearest to the query, all of them
\* when the store holds fewer; which chunks are nearest is an input.
retrieve(docs, k) ==
    {S \in SUBSET DOMAIN docs : Cardinality(S) = IF k < Len(docs) THEN k ELSE Len(docs)}

AddDocument(i) ==
    /\ mem[i].open
    /\ \E file \in Files, fault \in IngestFaults :
          /\ Len(mem[i].docs) + ChunkCount(file.len) <= MaxDocs
          /\ \E r \in {add_document(mem[i].docs, file, fault, disk)} :
                /\ mem' = [mem EXCEPT ![i].docs = r.docs]
                /\ disk' = r.disk
                /\ rag_ret' = [rag_ret EXCEPT ![i] = [op |-> "add_document", raised |-> r.raised,
                                                      value |-> r.value, file |-> file,
                                                      fault |-> fault]]
    /\ UNCHANGED research_vars

AddTextRaises(i) ==
    /\ mem[i].open
    /\ \E text \in Texts, fault \in IngestFaults \ {"none"} :
          /\ Len(mem[i].docs) + ChunkCount(text.len) <= MaxDocs
          /\ \E r \in {add_text_fault(mem[i].docs, text, "m", fault, disk)} :
                /\ mem' = [mem EXCEPT ![i].docs = r.docs]
                /\ disk' = r.disk
                /\ rag_ret' = [rag_ret EXCEPT ![i] = [op |-> "add_text", raised |-> r.raised,
                                                      text |-> text, fault |-> fault]]
    /\ UNCHANGED research_vars

GetCollectionInfo(i) ==
    /\ mem[i].open
    /\ rag_ret' = [rag_ret EXCEPT ![i] = [op |-> "get_collection_info", raised |-> FALSE,
                                          value |-> get_collection_info(mem[i].docs)]]
    /\ UNCHANGED <<disk, mem>>
    /\ UNCHANGED research_vars

Retrieve(i) ==
    /\ mem[i].open
    /\ \E k \in RetrieveKs : \E found \in retrieve(mem[i].docs, k) :
          rag_ret' = [rag_ret EXCEPT ![i] = [op |-> "retrieve", raised |-> FALSE,
                                             k |-> k, found |-> found]]
    /\ UNCHANGED <<disk, mem>>
    /\ UNCHANGED research_vars

(***************************************************************************)
(* The retrieval-augmented run (rag_agent.py).                             *)
(***************************************************************************)
\* The methods the class RAGSystem defines.
RAGSystemMethods ==
    {"__init__", "_init_vector_store", "_create_new_vector_store", "add_document",
     "add_text", "retrieve", "retrieve_with_scores", "augment_query", "get_collection_info"}

\* The names rag_agent.py binds: its imports and its own definitions.
RagAgentNames ==
    {"os", "Dict", "List", "Any", "Optional", "Tuple", "TypedDict", "BaseModel", "Field",
     "HumanMessage", "AIMessage", "StateGraph", "END", "config", "get_ollama_llm",
     "create_research_chain", "RAGSystem", "RAGState", "create_rag_agent", "run_rag_agent"}

RagSentinel == Text("An error occurred while processing your request with RAG.")

\* run_rag_agent: the store is constructed, rag_system.get_relevant_documents
\* and run_research_agent are looked up, and every exception ends in the
\* handler.  The last branch stands for the run whose answer would be reused.
run_rag_agent(q, d) ==
    LET rag_system == init_vector_store(d) IN
    IF rag_system.raised
    THEN [answer |-> RagSentinel, state |-> [error |-> "load failed"], disk |-> rag_system.disk]
    ELSE IF "get_relevant_documents" \notin RAGSystemMethods
    THEN [answer |-> RagSentinel, state |-> [error |-> "AttributeError"],
          disk |-> rag_system.disk]
    ELSE IF "run_research_agent" \notin RagAgentNames
    THEN [answer |-> RagSentinel, state |-> [error |-> "NameError"], disk |-> rag_system.disk]
    ELSE [answer |-> Text("final_answer"), state |-> [retrieved_docs |-> rag_system.docs],
          disk |-> rag_system.disk]

RunRagAgent ==
    /\ pc = "idle"
    /\ \E q \in Questions : \E r \in {run_rag_agent(q, disk)} :
          /\ question' = q
          /\ ret' = [raised |-> FALSE, answer |-> r.answer, state |-> r.state]
          /\ disk' = r.disk
    /\ pc' = "rag_returned"
    /\ UNCHANGED <<config, search_config, search_logs, current_answer, final_answer, needs_more_research,
                   next_search_strategy, trace, last_tool, exc, mem, rag_ret>>

(***************************************************************************)
(* add_text step by step, and the end of the process in the middle of it.  *)
(* save_local writes the index file and then the side-table, each opened   *)
(* for writing in place.                                                   *)
(***************************************************************************)
\* add_text up to the return of add_documents: the chunks are in memory.
IngestAdd(i) ==
    /\ mem[i].open
    /\ rag_ret[i].op # "saving"
    /\ \E text \in Texts :
          /\ Len(mem[i].docs) + ChunkCount(text.len) <= MaxDocs
          /\ \E r \in {add_text(mem[i].docs, text, "m")} :
                /\ mem' = [mem EXCEPT ![i].docs = r.docs]
                /\ rag_ret' = [rag_ret EXCEPT ![i] = [op |-> "saving", written |-> "nothing",
                                                      before |-> disk, value |-> r.value,
                                                      text |-> text]]
    /\ UNCHANGED disk
    /\ UNCHANGED research_vars

\* The index file is opened for writing: it is empty until it is written.
OpenIndexFile(i) ==
    /\ rag_ret[i].op = "saving" /\ rag_ret[i].written = "nothing"
    /\ disk' = [kind |-> "corrupt", docs |-> disk.docs]
    /\ rag_ret' = [rag_ret EXCEPT ![i].written = "index open"]
    /\ UNCHANGED mem
    /\ UNCHANGED research_vars

\* The index file is written: the side-table is still the one on disk.
WriteIndexFile(i) ==
    /\ rag_ret[i].op = "saving" /\ rag_ret[i].written = "index open"
    /\ disk' = [kind |-> "torn", docs |-> disk.docs, vectors |-> Len(mem[i].docs)]
    /\ rag_ret' = [rag_ret EXCEPT ![i].written = "index"]
    /\ UNCHANGED mem
    /\ UNCHANGED research_vars

\* The side-table is written and add_text returns the chunk count.
WriteSideTable(i) ==
    /\ rag_ret[i].op = "saving" /\ rag_ret[i].written = "index"
    /\ disk' = save_local(mem[i].docs)
    /\ rag_ret' = [rag_ret EXCEPT ![i] = [op |-> "add_text", raised |-> FALSE,
                                          value |-> rag_ret[i].value,
                                          text |-> rag_ret[i].text]]
    /\ UNCHANGED mem
    /\ UNCHANGED research_vars

\* The process ends: every instance is gone, the directory stays as it is.
Crash ==
    /\ \E i \in Instances : mem[i].open
    /\ mem' = [i \in Instances |-> Closed]
    /\ rag_ret' = [i \in Instances |-> [op |-> "none"]]
    /\ UNCHANGED disk
    /\ UNCHANGED research_vars

(***************************************************************************)
(* Specifications.                                                         *)
(***************************************************************************)
Init ==
    /\ config = SearchConfig
    /\ search_config = NoArgument
    /\ pc = "idle"
    /\ question = None
    /\ search_logs = <<>>
    /\ current_answer = <<>>
    /\ final_answer = Null
    /\ needs_more_research = TRUE
    /\ next_search_strategy = None
    /\ trace = <<>>
    /\ last_tool = NoToolCall
    /\ exc = None
    /\ ret = Null
    /\ disk \in InitialDisks
    /\ mem = [i \in Instances |-> Closed]
    /\ rag_ret = [i \in Instances |-> [op |-> "none"]]

\* The steps of the compiled graph in which every service call returns.
GraphStep ==
    \/ Route
    \/ WebSearch
    \/ AcademicSearch
    \/ YoutubeSearch
    \/ SocialMediaSearch
    \/ Reflect
    \/ Summarize

\* The steps of a run in which every service call returns.
RunReturns ==
    \/ RunStart
    \/ GraphStep
    \/ RunReturn

Next ==
    \/ RunReturns
    \/ ReflectRaises
    \/ SummarizeRaises

StoreNext == \E i \in Instances : Construct(i) \/ AddText(i)

\* The start of a process that runs the orchestrator and has no collection.
RunInit == Init /\ disk = DiskMissing

\* A run of the orchestrator; the store is not touched.
Spec == RunInit /\ [][Next]_vars

\* A run in which every provider, reflection and synthesis call returns:
\* agent.invoke executes the next node as long as the graph has not ended.
LiveSpec == RunInit /\ [][RunReturns]_vars /\ WF_vars(GraphStep)

\* The knowledge store alone, with two instances on the same collection.
StoreSpec == Init /\ [][StoreNext]_vars

\* Every call on a store, the ingests that fail inside included, by the one
\* instance of a process.
StoreCallsNext ==
    \/ Construct(1)
    \/ AddText(1)
    \/ AddDocument(1)
    \/ AddTextRaises(1)
    \/ GetCollectionInfo(1)
    \/ Retrieve(1)
    \/ RunRagAgent

StoreCallsSpec == Init /\ [][StoreCallsNext]_vars

\* The academic node alone, on every provider output.
ParseNext == AcademicNodeStart \/ AcademicSearchOn

ParseSpec == RunInit /\ [][ParseNext]_vars

\* The router alone, on every state handed to it.
RouteNext == RouteNodeStart \/ Route

RouteSpec == RunInit /\ [][RouteNext]_vars

\* Runs of the orchestrator one after the other in one process.
RunsNext ==
    \/ CreateResearchAgent
    \/ Invoke
    \/ GraphStep
    \/ ReflectRaises
    \/ SummarizeRaises
    \/ RunReturn
    \/ NextQuestion

RunsSpec == RunInit /\ [][RunsNext]_vars

\* Processes, one after the other, that construct a store and ingest texts
\* and can end at any step.
CrashNext ==
    \/ Construct(1)
    \/ IngestAdd(1)
    \/ OpenIndexFile(1)
    \/ WriteIndexFile(1)
    \/ WriteSideTable(1)
    \/ Crash

CrashSpec == Init /\ [][CrashNext]_vars

(***************************************************************************)
(* Properties.                                                             *)
(***************************************************************************)
Last(seq) == seq[Len(seq)]

WebCount == Cardinality({i \in DOMAIN search_logs : search_logs[i].source = "web"})

YesCount == Cardinality({i \in DOMAIN current_answer : current_answer[i] = MarkerYes})

Completed(node) == \E i \in DOMAIN trace : trace[i] = node

TimesCompleted(node) == Cardinality({i \in DOMAIN trace : trace[i] = node})

\* C1: when every provider, reflection and synthesis call returns, a run
\* started at the router, under any enable flags and any reflection verdicts,
\* reaches END with SUMMARIZE as the last node it executed.
C1_Terminates ==
    (pc = "route_search" /\ trace = <<>>) ~> (pc = "END" /\ Last(trace) = "summarize")

\* A run that was told "needs more" at every reflection and still ended.
C1_Witness ==
    /\ pc = "END"
    /\ Last(trace) = "summarize"
    /\ YesCount = TimesCompleted("reflect")
    /\ WebCount = 3

\* C2: the evidence log never holds more than 3 web entries.
C2_AtMostThreeWeb == WebCount <= 3

\* Three web entries in a run whose every reflection said "needs more".
C2_Witness ==
    /\ WebCount = 3
    /\ TimesCompleted("reflect") = 6
    /\ YesCount = 6

\* C3: a REFLECT that starts with two completed loops (three web entries)
\* ends with needs_more_research = FALSE and next_search_strategy = summarize,
\* whatever the reflection says.
C3_HardCapForces ==
    [][(pc = "reflect" /\ pc' # "EXC" /\ WebCount - 1 >= 2)
       => (needs_more_research' = FALSE /\ next_search_strategy' = "summarize")]_vars

\* The capped REFLECT has run on a reflection that said "needs more".
C3_Witness ==
    /\ trace # <<>> /\ Last(trace) = "reflect"
    /\ WebCount = 3
    /\ Last(current_answer) = MarkerYes
    /\ next_search_strategy = "summarize"
    /\ ~needs_more_research

\* C4: run_research_agent never raises to its caller, and when a node of the
\* graph raised it returns the sentinel message with a state that holds an
\* error marker.
C4_NeverRaises ==
    [][(pc' = "returned" => ~ret'.raised)
       /\ (pc = "EXC" => (ret'.answer = Sentinel /\ DOMAIN ret'.state = {"error"}))]_vars

\* The synthesis service raised and the caller got the sentinel.
C4_Witness ==
    /\ pc = "returned"
    /\ exc = "synthesis failed"
    /\ ret.answer = Sentinel
    /\ ret.state = [error |-> "synthesis failed"]

SearchNodes == {"web_search", "academic_search", "youtube_search", "social_media_search"}

IsPrefix(a, b) == Len(a) <= Len(b) /\ \A i \in DOMAIN a : a[i] = b[i]

\* C5 as stated: after a search step whose provider client failed, the new
\* log entry's rendered result is the failure text the tool returned.
C5_FailureTextLogged ==
    [][(pc \in SearchNodes /\ last_tool'.failed)
       => Last(search_logs').results = last_tool'.output]_vars

\* C5, amended: a provider failure never aborts the run.  The search step
\* appends exactly one entry and goes to REFLECT; the entry's result is the
\* tool's failure text for web and social media, while for academic and video
\* the tool's text is parsed, not logged, and an entry without a parsed record
\* holds the nothing-found notice.  When reflection and synthesis return, the
\* run then reaches END through SUMMARIZE with a final answer.
C5_FailureContinues ==
    /\ [][(pc \in SearchNodes /\ last_tool'.failed)
          => /\ pc' = "reflect"
             /\ Len(search_logs') = Len(search_logs) + 1
             /\ IsPrefix(search_logs, search_logs')
             /\ pc \in {"web_search", "social_media_search"}
                   => Last(search_logs').results = last_tool'.output
             /\ pc = "academic_search"
                   => /\ Last(search_logs').results # last_tool'.output
                      /\ Last(search_logs').links = <<>>
                            => Last(search_logs').results =
                                  <<"## Academic Sources",
                                    "*No academic papers found for this query.*">>
             /\ pc = "youtube_search"
                   => Last(search_logs').results =
                         <<"## Related Videos", "*No relevant videos found for this query.*">>]_vars
    /\ (pc = "reflect" /\ last_tool.failed)
          ~> (pc = "END" /\ Last(trace) = "summarize" /\ final_answer # Null)

\* A run ended with an answer after its video search failed.
C5_Witness ==
    /\ pc = "END"
    /\ final_answer # Null
    /\ last_tool.tool = "youtube_search"
    /\ last_tool.failed
    /\ Last(search_logs).source = "youtube"

NoSourceEnabled == \A k \in FlagNames : ~config[k]

\* C6: with no source enabled, REFLECT sets next_search_strategy = summarize
\* whatever the reflection says.
C6_NoSourceSummarizes ==
    [][(pc = "reflect" /\ pc' # "EXC" /\ NoSourceEnabled)
       => next_search_strategy' = "summarize"]_vars

\* C7 as stated: with web disabled the loop counter reads -1 at every REFLECT.
C7_CounterMinusOne ==
    (pc = "reflect" /\ ~config["web_search_enabled"]) => WebCount - 1 = -1

\* C7, amended: with web disabled the seeded web step still logs a web entry
\* (the disabled notice), and so does every restart: at every REFLECT the log
\* starts with a web entry, the loop counter (web entries minus one) is 0, 1
\* or 2, never -1, and every web entry holds the disabled notice.  The hard
\* cap is therefore reached, at the REFLECT after the third web entry.
C7_CounterWebDisabled ==
    (pc = "reflect" /\ ~config["web_search_enabled"])
       => /\ search_logs[1].source = "web"
          /\ WebCount - 1 \in 0..2
          /\ \A i \in DOMAIN search_logs :
                search_logs[i].source = "web"
                   => search_logs[i].results = <<"Web search is disabled.">>

\* A REFLECT with web disabled that starts with two completed loops.
C7_Witness ==
    /\ pc = "reflect"
    /\ ~config["web_search_enabled"]
    /\ WebCount - 1 = 2

OnlyWebEnabled ==
    \A k \in FlagNames : config[k] <=> (k = "web_search_enabled")

\* C8 as stated: with only web enabled, a completed run logged exactly one
\* entry, a web entry, and went from its REFLECT to SUMMARIZE.
C8_OneWebEntry ==
    (pc = "END" /\ OnlyWebEnabled)
       => /\ Len(search_logs) = 1
          /\ search_logs[1].source = "web"
          /\ trace = <<"route_search", "web_search", "reflect", "summarize">>

\* C8, amended: with only web enabled, every entry of a completed run's log
\* is a web entry and the run ends with SUMMARIZE; there is one entry more
\* than there were "needs more" verdicts, up to three entries, so exactly one
\* entry, followed by REFLECT and SUMMARIZE, when the first verdict is not
\* "needs more".
C8_OnlyWebEntries ==
    (pc = "END" /\ OnlyWebEnabled)
       => /\ \A i \in DOMAIN search_logs : search_logs[i].source = "web"
          /\ Len(search_logs) = 1 + (IF YesCount < 2 THEN YesCount ELSE 2)
          /\ Last(trace) = "summarize"
          /\ YesCount = 0
                => trace = <<"route_search", "web_search", "reflect", "summarize">>

\* A completed run with only web enabled that logged three web entries.
C8_Witness ==
    /\ pc = "END"
    /\ OnlyWebEnabled
    /\ Len(search_logs) = 3
    /\ YesCount = 2

\* C9: final_answer is set exactly in the states after SUMMARIZE has run.
C9_AnswerIffSummarized ==
    (final_answer # Null) <=> Completed("summarize")

\* SUMMARIZE has run and the answer is set.
C9_Witness ==
    /\ pc = "END"
    /\ Completed("summarize")
    /\ final_answer = summary_chain(question, organized_content(State))

\* C10: a constructor that finds a directory it cannot load (missing,
\* corrupt, other schema) does not raise: it leaves a store of exactly the
\* placeholder document, saved to disk; and an add_text on a store created
\* this way returns its chunk count with the chunks in memory and on disk.
C10_FallbackStore ==
    [][\A i \in Instances :
          /\ (rag_ret[i].op = "none" /\ rag_ret'[i].op = "__init__" /\ disk.kind # "ok")
                => /\ ~rag_ret'[i].raised
                   /\ mem'[i].open
                   /\ mem'[i].docs = <<Placeholder>>
                   /\ disk' = [kind |-> "ok", docs |-> <<Placeholder>>]
          /\ (mem[i].open /\ mem[i].origin = "created"
              /\ (mem'[i] # mem[i] \/ rag_ret'[i] # rag_ret[i]))
                => /\ rag_ret'[i].op = "add_text"
                   /\ ~rag_ret'[i].raised
                   /\ rag_ret'[i].value = Len(mem'[i].docs) - Len(mem[i].docs)
                   /\ rag_ret'[i].value >= 1
                   /\ IsPrefix(mem[i].docs, mem'[i].docs)
                   /\ disk' = [kind |-> "ok", docs |-> mem'[i].docs]]_vars

\* A store created by the fallback of the constructor has taken a text of two chunks.
C10_Witness ==
    \E i \in Instances :
       /\ mem[i].origin = "created"
       /\ rag_ret[i].op = "add_text"
       /\ rag_ret[i].value = 2
       /\ mem[i].docs[1] = Placeholder
       /\ Len(mem[i].docs) = 3
       /\ disk.docs = mem[i].docs

OnlyInstance(i) == \A j \in Instances \ {i} : ~mem[j].open /\ rag_ret[j].op = "none"

IngestOps == {"add_document", "add_text"}

\* C11: with a single store instance, whenever an ingest call has returned,
\* the directory on disk holds exactly the instance's in-memory store.
C11_IngestPersists ==
    \A i \in Instances :
       (mem[i].open /\ OnlyInstance(i) /\ rag_ret[i].op \in IngestOps /\ ~rag_ret[i].raised)
          => disk = [kind |-> "ok", docs |-> mem[i].docs]

\* C12: when the process ends inside an ingest call, after the in-memory
\* add and before the save has finished, the directory is loadable and holds
\* either what it held before the call or the store after the call.
C12_CrashKeepsDisk ==
    [][\A i \in Instances :
          (mem[i].open /\ OnlyInstance(i) /\ rag_ret[i].op = "saving" /\ ~mem'[i].open)
             => /\ disk'.kind = "ok"
                /\ disk' = rag_ret[i].before \/ disk' = [kind |-> "ok", docs |-> mem[i].docs]]_vars

\* C13: no ingest call raises to its caller, and an ingest in which the
\* extraction, the embedding or the save failed returns 0.
C13_IngestNeverRaises ==
    \A i \in Instances :
       rag_ret[i].op \in IngestOps
          => /\ ~rag_ret[i].raised
             /\ ("fault" \in DOMAIN rag_ret[i] /\ rag_ret[i].fault # "none")
                   => rag_ret[i].value = 0
             /\ ("file" \in DOMAIN rag_ret[i] /\ ~rag_ret[i].file.extracts)
                   => rag_ret[i].value = 0

HasChunkOf(docs, name) == \E n \in DOMAIN docs : docs[n].page_content[1] = name

\* C14: with two instances on one collection, every add_text saves the whole
\* in-memory store of the instance that calls it and nothing else: the
\* directory then equals that instance's store, the other instance and its
\* store are not touched, and no error is reported.  The directory always
\* equals the store of the instance that loaded or saved last, so it lacks
\* whatever the other instance added.
C14_LastWriterWins ==
    /\ []((\E i \in Instances : mem[i].open)
            => \E i \in Instances : mem[i].open /\ disk = [kind |-> "ok", docs |-> mem[i].docs])
    /\ [][\A i \in Instances :
             (mem[i].open /\ mem'[i] # mem[i])
                => /\ rag_ret'[i].op = "add_text" /\ ~rag_ret'[i].raised
                   /\ disk' = [kind |-> "ok", docs |-> mem'[i].docs]
                   /\ \A j \in Instances \ {i} : mem'[j] = mem[j] /\ rag_ret'[j] = rag_ret[j]]_vars

\* Both instances have ingested without error; the directory is the store of
\* instance 2 and the chunk instance 1 added is not in it.
C14_Witness ==
    /\ mem[1].open /\ mem[2].open
    /\ rag_ret[1].op = "add_text" /\ ~rag_ret[1].raised /\ rag_ret[1].text.name = "hello"
    /\ rag_ret[2].op = "add_text" /\ ~rag_ret[2].raised /\ rag_ret[2].text.name = "page"
    /\ HasChunkOf(mem[1].docs, "hello")
    /\ disk.docs = mem[2].docs
    /\ HasChunkOf(disk.docs, "page")
    /\ ~HasChunkOf(disk.docs, "hello")

\* C15: get_collection_info reports the number of vectors the store holds:
\* the placeholder and every chunk ingested since.
C15_ReportsVectorCount ==
    \A i \in Instances :
       rag_ret[i].op = "get_collection_info"
          => rag_ret[i].value.vector_count = Len(mem[i].docs)

\* C16: run_rag_agent returns the final answer of a research run on the
\* question, with a state that carries the retrieved passages.
C16_RagReturnsRun ==
    pc = "rag_returned"
       => /\ ret.answer # RagSentinel
          /\ "retrieved_docs" \in DOMAIN ret.state
          /\ "error" \notin DOMAIN ret.state

HasLine(section, key) == \E l \in DOMAIN section : section[l].key = key

\* C18: whatever the provider output, the academic node appends its entry and
\* goes on to REFLECT; every structured item it keeps has a title, a url and
\* an abstract; and a record of the output that has no Abstract: line, or no
\* URL: line, or does not start with its Title: line, yields no item.
C18_KeepsCompleteRecords ==
    (pc = "reflect" /\ Completed("academic_search"))
       => LET input == last_tool.output
              links == Last(search_logs).links
          IN  /\ Len(search_logs) = 1
              /\ \A m \in DOMAIN links :
                    /\ links[m]["title"] # Absent
                    /\ links[m]["url"] # Absent
                    /\ links[m]["abstract"] # Absent
              /\ \A n \in DOMAIN input :
                    (input[n] = <<>> \/ input[n][1].key # "Title:"
                     \/ ~HasLine(input[n], "URL:") \/ ~HasLine(input[n], "Abstract:"))
                       => \A m \in DOMAIN links : links[m]["title"] # RecordName(n)

\* An output of two records, the second without its Abstract: line: one item.
C18_Witness ==
    /\ pc = "reflect" /\ Completed("academic_search")
    /\ Len(last_tool.output) = 2
    /\ HasLine(last_tool.output[2], "Title:") /\ HasLine(last_tool.output[2], "URL:")
    /\ ~HasLine(last_tool.output[2], "Abstract:")
    /\ Len(Last(search_logs).links) = 1
    /\ Last(search_logs).links[1]["title"] = RecordName(1)

SourceOrder == <<"web", "academic", "youtube", "social_media">>

SourceEnabled(source) ==
    CASE source = "web" -> config["web_search_enabled"]
      [] source = "academic" ->
            config["arxiv_search_enabled"] \/ config["scholar_search_enabled"]
      [] source = "youtube" -> config["youtube_search_enabled"]
      [] source = "social_media" ->
            config["twitter_search_enabled"] \/ config["linkedin_search_enabled"]

\* The positions in the fixed order of the enabled sources without a log entry.
Candidates ==
    {n \in DOMAIN SourceOrder :
        /\ SourceEnabled(SourceOrder[n])
        /\ \A e \in DOMAIN search_logs : search_logs[e].source # SourceOrder[n]}

\* A REFLECT that returns, below the hard cap, on a "needs more" verdict.
ReflectNeedsMore ==
    /\ pc = "reflect" /\ pc' # "EXC"
    /\ Last(current_answer') = MarkerYes
    /\ WebCount - 1 < 2

\* C19: in a REFLECT below the hard cap whose verdict is "needs more", when
\* some enabled source has no entry in the log, the next strategy is the
\* first such source in the order web, academic, video, social media; it is
\* never a disabled source nor one that has an entry.
C19_FirstUnusedEnabled ==
    [][(ReflectNeedsMore /\ Candidates # {})
       => \E n \in Candidates :
             /\ \A m \in Candidates : n <= m
             /\ next_search_strategy' = SourceOrder[n] \o "_search"
             /\ needs_more_research']_vars

\* REFLECT chose the video source: academic is disabled, social media is
\* enabled and not yet used.
C19_Witness ==
    /\ trace # <<>> /\ Last(trace) = "reflect"
    /\ next_search_strategy = "youtube_search"
    /\ ~SourceEnabled("academic")
    /\ SourceEnabled("social_media")
    /\ Len(search_logs) = 1

AppendedReflection ==
    SubSeq(current_answer', Len(current_answer) + 2, Len(current_answer'))

\* C21: a REFLECT whose reflection text does not contain the marker
\* "FURTHER_RESEARCH_NEEDED: Yes" (it says No, or has no marker) ends with
\* needs_more_research = FALSE and next_search_strategy = summarize.
C21_NoMarkerSummarizes ==
    [][(pc = "reflect" /\ pc' # "EXC"
        /\ \A i \in DOMAIN AppendedReflection : AppendedReflection[i] # MarkerYes)
       => (needs_more_research' = FALSE /\ next_search_strategy' = "summarize")]_vars

\* The first REFLECT of a run, below the hard cap, on a reflection that
\* carries no marker at all.
C21_Witness ==
    /\ trace # <<>> /\ Last(trace) = "reflect"
    /\ WebCount = 1
    /\ Last(current_answer) = "analysis"
    /\ next_search_strategy = "summarize"
    /\ ~needs_more_research

\* The heading a search node writes into the narrative before its results.
NarrativeHeading(node) == IF node = "web_search" THEN <<"## Web Search Results">> ELSE <<>>

\* C22: every search node (web, academic, video, social media) appends
\* exactly one entry to the log, with the node's source and with the run's
\* question as its query; appends the entry's rendered results to the
\* narrative (the web node under its heading); sets next_search_strategy to
\* null; and leaves question, final_answer and needs_more_research as they were.
C22_SearchNodeEffect ==
    [][(pc \in SearchNodes)
       => (/\ Len(search_logs') = Len(search_logs) + 1
           /\ IsPrefix(search_logs, search_logs')
           /\ Last(search_logs').source \o "_search" = pc
           /\ Last(search_logs').query = question
           /\ current_answer' = current_answer \o NarrativeHeading(pc) \o Last(search_logs').results
           /\ next_search_strategy' = None
           /\ question' = question
           /\ final_answer' = final_answer
           /\ needs_more_research' = needs_more_research)]_vars

\* The social media node has run as the fourth search of a run.
C22_Witness ==
    /\ pc = "reflect"
    /\ Last(trace) = "social_media_search"
    /\ Len(search_logs) = 4
    /\ Last(search_logs).source = "social_media"
    /\ Last(search_logs).query = question
    /\ Last(search_logs).results # <<>>
    /\ next_search_strategy = None

StateUnchanged ==
    /\ question' = question
    /\ search_logs' = search_logs
    /\ current_answer' = current_answer
    /\ final_answer' = final_answer
    /\ needs_more_research' = needs_more_research
    /\ next_search_strategy' = next_search_strategy

\* C23: the router only dispatches.  It sends the graph to the search node
\* that next_search_strategy names, and to the summarize node when
\* next_search_strategy is null or is already "summarize"; it changes no
\* field of the research state.
C23_RouteDispatches ==
    [][(pc = "route_search")
       => (/\ next_search_strategy \in SearchNodes => pc' = next_search_strategy
           /\ next_search_strategy \in {None, "summarize"} => pc' = "summarize"
           /\ StateUnchanged)]_vars

\* The router was handed a state without a strategy and chose summarize.
C23_Witness ==
    /\ trace = <<"route_search">>
    /\ next_search_strategy = None
    /\ pc = "summarize"

\* C24: in every state of a run, next_search_strategy is null exactly when
\* the last node that completed is a search node, that is when a search has
\* completed and its REFLECT has not; it is not null when the run starts,
\* after every REFLECT and after SUMMARIZE.
C24_NullWhileAwaitingReflect ==
    (pc # "idle")
       => ((next_search_strategy = None) <=> (trace # <<>> /\ Last(trace) \in SearchNodes))

\* The video search of a run has completed and its REFLECT has not run.
C24_Witness ==
    /\ pc = "reflect"
    /\ Last(trace) = "youtube_search"
    /\ Len(search_logs) = 3
    /\ next_search_strategy = None

\* The number of lines the results of the entries before entry i take.
RECURSIVE ResultsBefore(_, _)
ResultsBefore(logs, i) ==
    IF i = 1 THEN 0 ELSE ResultsBefore(logs, i - 1) + Len(logs[i - 1].results)

\* What a REFLECT writes into the narrative.
ReflectionLines ==
    {"### Research Progress Analysis", "analysis", MarkerYes, "FURTHER_RESEARCH_NEEDED: No"}

C26_LogAppendOnly ==
    [][/\ IsPrefix(search_logs, search_logs')
       /\ (pc \in SearchNodes) => Len(search_logs') = Len(search_logs) + 1
       /\ (pc \notin SearchNodes) => search_logs' = search_logs]_vars

\* A completed run of six searches: the log still starts with the entries of
\* the first loop, in the order they were appended.
C26_Witness ==
    /\ pc = "END"
    /\ Len(search_logs) = 6
    /\ search_logs[1].source = "web"
    /\ search_logs[2].source = "academic"
    /\ search_logs[3].source = "youtube"
    /\ search_logs[4].source = "social_media"

EntriesOf(source) == Cardinality({e \in DOMAIN search_logs : search_logs[e].source = source})

SearchesCompleted == Cardinality({i \in DOMAIN trace : trace[i] \in SearchNodes})

NonWebSources == {"academic", "youtube", "social_media"}

C28_ReflectNeverEnds ==
    /\ [][(pc = "reflect" /\ pc' # "EXC")
          => (/\ pc' \in {"route_search", "summarize"}
              /\ ~needs_more_research' => next_search_strategy' = "summarize"
              /\ ~needs_more_research' => pc' = "summarize")]_vars
    /\ [](pc = "END" => (TimesCompleted("summarize") = 1 /\ Last(trace) = "summarize"))

\* A run ended after a single search whose reflection said No: REFLECT went
\* to SUMMARIZE, and SUMMARIZE to END.
C28_Witness ==
    /\ pc = "END"
    /\ trace = <<"route_search", "web_search", "reflect", "summarize">>
    /\ ~needs_more_research
    /\ Last(current_answer) = "FURTHER_RESEARCH_NEEDED: No"

\* C29: an add_document call that returns 0 leaves the collection as it
\* was: the in-memory store of the instance and the directory on disk hold
\* the chunks they held before the call and no other, also when the failure
\* is in the save that follows the in-memory add.
C29_ZeroLeavesCollection ==
    [][\A i \in Instances :
          (mem[i].open /\ pc' = pc /\ rag_ret'[i].op = "add_document" /\ rag_ret'[i].value = 0)
             => (mem'[i].docs = mem[i].docs /\ disk'.docs = disk.docs)]_vars

\* C30: the flags passed to a run are written to the process-wide
\* configuration and stay in force: a call sets the flags its search_config
\* names and keeps the value of every other flag, so a call with no or an
\* empty search_config runs with the flags of the calls before it and not
\* with the defaults; nothing else changes a flag, during the run or after
\* it; and REFLECT selects a non-web source only if that configuration
\* enables it.
C30_FlagsPersist ==
    /\ [][(pc = "idle" /\ pc' = "created")
          => \A k \in FlagNames :
                config'[k] = IF k \in DOMAIN search_config' THEN search_config'[k]
                             ELSE config[k]]_vars
    /\ [][(pc # "idle") => config' = config]_vars
    /\ [][(pc = "reflect" /\ pc' # "EXC")
          => \A source \in NonWebSources :
                next_search_strategy' = source \o "_search" => SourceEnabled(source)]_vars

\* A call with an empty search_config has passed create_research_agent in
\* a process where an earlier run disabled the video and the academic sources.
C30_Witness ==
    /\ pc = "created"
    /\ search_config = <<>>
    /\ ~config["youtube_search_enabled"]
    /\ ~SourceEnabled("academic")
    /\ config["web_search_enabled"]

====
